---- MODULE Spec2Model ----
(***************************************************************************)
(* State-machine model of the coordination core of SIAME 2026v3:           *)
(*   - MessageQueue, EventBus, ErrorHandler, SharedContext and MessageBus  *)
(*     of src/shared/communication/message_bus.py                          *)
(*   - ResultAggregator of src/orchestrator/result_aggregator.py           *)
(*   - SIAMEOrchestrator of src/orchestrator/main.py and TaskDispatcher of *)
(*     src/orchestrator/task_dispatcher.py                                 *)
(* Each component has its own specifications (SpecQueue, SpecQueueFair,     *)
(* SpecBus, SpecFail, SpecAgents, SpecRegistry, SpecEvents, SpecUnsub,      *)
(* SpecAgg, SpecDispatch, SpecSubmit, SpecStrategies, SpecBackoff,          *)
(* SpecRoundRobin); a specification leaves the variables of the other       *)
(* components at their constructor values.                                  *)
(***************************************************************************)
EXTENDS Integers, Sequences, FiniteSets, TLC

(***************************************************************************)
(* Bounds of the model                                                      *)
(***************************************************************************)
\* messages the producers of SpecQueue offer to MessageQueue.put
MaxMsgs == 3
\* MessageQueue(max_size=...): capacity of every tier (queue_max_size)
QueueMaxSize == 2
\* tasks the clients of SpecBus submit
MaxTasks == 2
\* largest max_retries a submitted task carries
MaxRetries == 1
\* agents that may register with the bus
NumAgents == 2
\* tasks dispatched to agent 1 before the tracked ones (see BusInit)
PreAssigned == 3
\* task ids the results given to the aggregator of SpecAgg carry
MaxResults == 3
\* aggregations of one workflow after which SpecAgg stops aggregating it
MaxAggregations == 2
\* fail_task calls the history of SpecFail records
MaxFailCalls == 4
\* callbacks that subscribe to the EventBus of SpecEvents
NumHandlers == 2
\* subscribe calls made in SpecEvents
MaxSubscribes == 3
\* publish calls made in SpecEvents
MaxPublishes == 2
\* tasks submitted to the orchestrator of SpecDispatch
MaxOrchTasks == 3
\* agents that register with the orchestrator of SpecDispatch
NumOrchAgents == 2
\* largest max_concurrent_tasks of a registered agent
MaxConcurrent == 2
\* task results of the workflow aggregated in SpecStrategies
MaxStrategyResults == 2
\* values a key of TaskResult.data may carry
MaxValue == 1
\* confidence_score takes the values 0, 1/MaxConfidence, ..., 1
MaxConfidence == 1
\* time.time() % 1 takes the values 0, 1/JitterSteps, ..., (JitterSteps-1)/JitterSteps
JitterSteps == 2
\* max_retry_delay of an ErrorHandler ranges over 1..MaxRetryDelay seconds
MaxRetryDelay == 20
\* successive retries of the task of SpecBackoff
MaxBackoffRetries == 4
\* selections made in SpecRoundRobin
MaxSelections == 6

(***************************************************************************)
(* MessagePriority (message_bus.py:57-63): the value of each member         *)
(***************************************************************************)
CRITICAL == 1
HIGH == 2
NORMAL == 3
LOW == 4
BACKGROUND == 5

\* iteration order of `for priority in MessagePriority`
MessagePriority == CRITICAL..BACKGROUND

NoMsg == [id |-> 0, priority |-> 0, task |-> 0]

VARIABLES
    \* ---- MessageQueue ----
    queues,            \* self.queues: tier -> FIFO content of its asyncio.Queue
    putters,           \* put calls suspended in `await queue.put` on the full CRITICAL tier
    gpc,               \* position of the consumer's get(): "idle" | "waiting"
    getters,           \* per tier, the queue.get() task of the timed wait:
                       \*   "none" | "waiting" | "woken" | "done"
    taken,             \* per tier, the result held by a finished queue.get() task
    ready,             \* the event loop's FIFO of callbacks the timed wait is waiting for
    got,               \* what the last get() returned (NoMsg for None)
    nextId,            \* next message id a producer will use
    trace,             \* history: the put/refuse/evict/take/get/drop events, in order
    tracing,           \* whether the history is kept (fixed by the initial state)
    \* ---- MessageBus, SharedContext, ErrorHandler ----
    task,              \* the Task objects the clients created, by task id
    nextTask,          \* id of the next Task a client will create
    active_tasks,      \* MessageBus.active_tasks (its keys; the values are task[...])
    failed_tasks,      \* ErrorHandler.failed_tasks (its keys)
    retry_schedule,    \* ErrorHandler.retry_schedule, in insertion order:
                       \*   [id, due] with due = (now >= retry_time)
    agents,            \* SharedContext.agents: agent id -> AgentContext
    agent_order,       \* insertion order of SharedContext.agents
    events,            \* per task, the TASK_STARTED / TASK_COMPLETED / TASK_FAILED
                       \*   events published so far
    retries_scheduled, \* history: per task, how often handle_task_error scheduled a retry
    hpc,               \* position of _handle_task_message: "idle" | "sleeping"
    \* ---- ResultAggregator ----
    task_results,      \* self.task_results: task id -> "none" | "fresh" | "old"
                       \*   ("old": timestamp before the cleanup cutoff)
    aggregated_results,\* self.aggregated_results: workflow id -> AggregatedResult
    aggregations,      \* history: per workflow, the AggregatedResults created so far
    \* ---- EventBus ----
    subscribers,       \* self.subscribers: topic -> set of callbacks
    wildcard_subscribers, \* self.wildcard_subscribers: set of callbacks
    events_published,  \* self._stats["events_published"]
    subscribed,        \* history: the subscriptions [topic, handler] issued and not cancelled, in order
    last_publish,      \* history: the last publish call, the handlers it invoked
                       \*   in order and the delivered_count it returned
    \* ---- SIAMEOrchestrator and TaskDispatcher ----
    tasks,             \* orchestrator.tasks: task id -> status and metadata["retry_count"]
    orch_agents,       \* orchestrator.agents: agent id -> Agent
    pending_tasks,     \* dispatcher.pending_tasks: the keys
    task_queue,        \* dispatcher.task_queue: the TaskQueueItems in the order get returns them
    exposes_task_status, \* whether the orchestrator object has an attribute TaskStatus
    last_cancel,       \* history: the last cancel_task call, the status it found and
                       \*   what it returned
    \* ---- ResultAggregator._create_aggregated_result ----
    agg_task_results,  \* aggregated.task_results: the TaskResults of the workflow
    strategy,          \* aggregated.aggregation_strategy, "none" before the call
    consolidated_data, \* aggregated.consolidated_data
    confidence_scores, \* aggregated.confidence_scores
    \* ErrorHandler backoff and TaskDispatcher round-robin selection
    backoff,           \* max_retry_delay, and history: the delays of the successive
                       \* retries of one task, in units of 1/JitterSteps second
    selections         \* the eligible pool, and history: the agents selected from it

queueVars == <<queues, putters, gpc, getters, taken, ready, got, nextId, trace,
               tracing>>

busVars == <<task, nextTask, active_tasks, failed_tasks, retry_schedule, agents, agent_order,
             events, retries_scheduled, hpc>>

aggVars == <<task_results, aggregated_results, aggregations>>

evVars == <<subscribers, wildcard_subscribers, events_published, subscribed, last_publish>>

orchVars == <<tasks, orch_agents, pending_tasks, task_queue, exposes_task_status,
              last_cancel>>

strategyVars == <<agg_task_results, strategy, consolidated_data, confidence_scores>>

policyVars == <<backoff, selections>>

vars == <<queueVars, busVars, aggVars, evVars, orchVars, strategyVars, policyVars>>

(***************************************************************************)
(* MessageQueue                                                            *)
(***************************************************************************)
\* a Message: its id, its priority, and the id of the task its payload carries (0: none)
Message(i, p, t) == [id |-> i, priority |-> p, task |-> t]

Event(e, m) == [ev |-> e, id |-> m.id, priority |-> m.priority]

\* entries of the event loop's ready queue: the step of a woken queue.get() task,
\* the done-callback of asyncio.wait, and the wake-up of get() itself
GetterStep(p) == [kind |-> "getter", tier |-> p]
WaitCallback == [kind |-> "callback", tier |-> 0]
WakeGet == [kind |-> "wake", tier |-> 0]

InReady(e) == \E k \in 1..Len(ready) : ready[k] = e

\* asyncio.Queue.full(): qsize() >= maxsize
QueueFull(q) == Len(q) >= QueueMaxSize

\* asyncio.Queue._put, as LIFO (the mutant of Enqueue)
EnqueueFront(q, m) == <<m>> \o q

\* asyncio.Queue._put: append at the tail of the tier
Enqueue(q, m) == Append(q, m)

\* the tiers of ps that hold a message
NonEmpty(qs, ps) == {p \in ps : qs[p] # <<>>}

Min(S) == CHOOSE x \in S : \A y \in S : x <= y

\* get(), immediate path: the first tier in MessagePriority order that is not empty
FirstNonEmpty(qs) == Min(NonEmpty(qs, MessagePriority))

\* _make_room_for_critical: the tier whose oldest message is discarded, or 0
EvictTier(qs) ==
    IF qs[BACKGROUND] # <<>> THEN BACKGROUND
    ELSE IF qs[LOW] # <<>> THEN LOW
    ELSE 0

\* put(message) without back-pressure (the mutant of PutOutcome)
PutOutcomeUnbounded(qs, m) ==
    IF QueueFull(qs[m.priority]) /\ m.priority = CRITICAL THEN "blocked"
    ELSE "accepted"

\* put(message): what the call does to a message of a tier that is, or is not, full
PutOutcome(qs, m) ==
    IF ~QueueFull(qs[m.priority]) THEN "accepted"
    ELSE IF m.priority = CRITICAL THEN "blocked"
    ELSE "refused"

\* the part of the state MessageQueue.put reads and writes
QueueState ==
    [queues |-> queues, getters |-> getters, ready |-> ready, putters |-> putters,
     trace |-> trace]

\* the history is kept only where a claim reads it
Log(tr, evs) == IF tracing THEN tr \o evs ELSE tr

\* asyncio.Queue.put_nowait: the message is stored and the tier's waiting getter,
\* if any, is woken (its task is appended to the loop's ready queue)
Store(qs, m) ==
    [qs EXCEPT !.queues[m.priority] = Enqueue(@, m),
               !.getters[m.priority] = IF @ = "waiting" THEN "woken" ELSE @,
               !.ready = IF qs.getters[m.priority] = "waiting"
                           THEN Append(@, GetterStep(m.priority)) ELSE @]

\* _make_room_for_critical: the oldest BACKGROUND (else LOW) message is discarded
MakeRoomForCritical(qs) ==
    LET e == EvictTier(qs.queues) IN
      IF e = 0 THEN qs
      ELSE [qs EXCEPT !.queues[e] = Tail(@),
                      !.trace = Log(@, <<Event("evict", Head(qs.queues[e]))>>)]

\* MessageQueue.put(message)
\*   tier not full: stored, returns True
\*   non-critical tier full: returns False
\*   CRITICAL tier full: _make_room_for_critical, then `await queue.put(message)`
\*   suspends, the CRITICAL tier being still full
Put(qs, m) ==
    CASE PutOutcome(qs.queues, m) = "accepted" ->
           [Store(qs, m) EXCEPT !.trace = Log(@, <<Event("put", m)>>)]
      [] PutOutcome(qs.queues, m) = "refused" ->
           [qs EXCEPT !.trace = Log(@, <<Event("refuse", m)>>)]
      [] PutOutcome(qs.queues, m) = "blocked" ->
           [MakeRoomForCritical(qs) EXCEPT !.putters = Append(@, m)]

\* the state MessageQueue.put leaves
SetQueueState(qs) ==
    /\ queues' = qs.queues
    /\ getters' = qs.getters
    /\ ready' = qs.ready
    /\ putters' = qs.putters
    /\ trace' = qs.trace

\* self._stats["messages_queued"]: incremented by every put that stored its message
MessagesQueued == Cardinality({k \in 1..Len(trace) : trace[k].ev = "put"})

\* a producer calls put with a fresh message of priority p
Producer(p) ==
    /\ nextId <= MaxMsgs
    /\ SetQueueState(Put(QueueState, Message(nextId, p, 0)))
    /\ nextId' = nextId + 1
    /\ UNCHANGED <<gpc, taken, got, tracing>>
    /\ UNCHANGED <<busVars, aggVars, evVars, orchVars, strategyVars, policyVars>>

\* a suspended `await queue.put(message)` resumes once the CRITICAL tier has room;
\* put() then returns True
PutResume ==
    /\ putters # <<>>
    /\ ~QueueFull(queues[CRITICAL])
    /\ SetQueueState([Store([QueueState EXCEPT !.putters = Tail(@)], Head(putters))
                        EXCEPT !.trace = Log(@, <<Event("put", Head(putters))>>)])
    /\ UNCHANGED <<gpc, taken, got, nextId, tracing>>
    /\ UNCHANGED <<busVars, aggVars, evVars, orchVars, strategyVars, policyVars>>

\* get(), immediate path: some tier is not empty; its oldest message is returned
GetImmediate ==
    /\ gpc = "idle"
    /\ NonEmpty(queues, MessagePriority) # {}
    /\ LET p == FirstNonEmpty(queues) IN
         /\ queues' = [queues EXCEPT ![p] = Tail(@)]
         /\ got' = Head(queues[p])
         /\ trace' = Log(trace, <<Event("take", Head(queues[p])), Event("get", Head(queues[p]))>>)
    /\ UNCHANGED <<putters, gpc, getters, taken, ready, nextId, tracing>>
    /\ UNCHANGED <<busVars, aggVars, evVars, orchVars, strategyVars, policyVars>>

\* get(timeout), every tier empty: one queue.get() task per tier is created and
\* get() suspends in asyncio.wait(..., return_when=FIRST_COMPLETED)
GetStartWait ==
    /\ gpc = "idle"
    /\ NonEmpty(queues, MessagePriority) = {}
    /\ gpc' = "waiting"
    /\ getters' = [p \in MessagePriority |-> "waiting"]
    /\ got' = NoMsg
    /\ UNCHANGED <<queues, putters, taken, ready, nextId, trace, tracing>>
    /\ UNCHANGED <<busVars, aggVars, evVars, orchVars, strategyVars, policyVars>>

\* the loop runs the step of a woken queue.get() task: it takes the oldest message
\* of its tier and finishes (the first to finish schedules the done-callback of
\* asyncio.wait); if the tier was emptied meanwhile it waits again
GetterRun ==
    /\ gpc = "waiting"
    /\ ready # <<>>
    /\ Head(ready).kind = "getter"
    /\ LET p == Head(ready).tier IN
         IF queues[p] # <<>>
           THEN /\ taken' = [taken EXCEPT ![p] = Head(queues[p])]
                /\ queues' = [queues EXCEPT ![p] = Tail(@)]
                /\ getters' = [getters EXCEPT ![p] = "done"]
                /\ ready' = IF \E q \in MessagePriority : getters[q] = "done"
                              THEN Tail(ready)
                              ELSE Append(Tail(ready), WaitCallback)
                /\ trace' = Log(trace, <<Event("take", Head(queues[p]))>>)
           ELSE /\ getters' = [getters EXCEPT ![p] = "waiting"]
                /\ ready' = Tail(ready)
                /\ UNCHANGED <<taken, queues, trace>>
    /\ UNCHANGED <<putters, gpc, got, nextId, tracing>>
    /\ UNCHANGED <<busVars, aggVars, evVars, orchVars, strategyVars, policyVars>>

\* the loop runs the done-callback of asyncio.wait: it releases the waiter, which
\* schedules the wake-up of get() unless the timeout already did
WaitCallbackRun ==
    /\ gpc = "waiting"
    /\ ready # <<>>
    /\ Head(ready) = WaitCallback
    /\ ready' = IF InReady(WakeGet) THEN Tail(ready) ELSE Append(Tail(ready), WakeGet)
    /\ UNCHANGED <<queues, putters, gpc, getters, taken, got, nextId, trace, tracing>>
    /\ UNCHANGED <<busVars, aggVars, evVars, orchVars, strategyVars, policyVars>>

\* the timeout of asyncio.wait expires: the waiter is released
GetTimeout ==
    /\ gpc = "waiting"
    /\ ~InReady(WakeGet)
    /\ ready' = Append(ready, WakeGet)
    /\ UNCHANGED <<queues, putters, gpc, getters, taken, got, nextId, trace, tracing>>
    /\ UNCHANGED <<busVars, aggVars, evVars, orchVars, strategyVars, policyVars>>

\* the drop events of the finished tasks ds, in tier order
RECURSIVE DropEvents(_, _)
DropEvents(tk, ds) ==
    IF ds = {} THEN <<>>
    ELSE LET p == Min(ds) IN <<Event("drop", tk[p])>> \o DropEvents(tk, ds \ {p})

\* the tiers whose queue.get() task has finished when get() resumes
DoneTiers == {p \in MessagePriority : getters[p] = "done"}

\* get(timeout) resumes: the unfinished tasks are cancelled (a message their tier
\* holds stays there); with no task done None is returned, otherwise done.pop()
\* yields one finished task (a set: any one) whose message is returned, and the
\* results of the other finished tasks are never read
GetResume ==
    /\ gpc = "waiting"
    /\ ready # <<>>
    /\ Head(ready) = WakeGet
    /\ IF DoneTiers = {}
         THEN /\ got' = NoMsg
              /\ UNCHANGED trace
         ELSE \E p \in DoneTiers :
                /\ got' = taken[p]
                /\ trace' = Log(trace, <<Event("get", taken[p])>>
                                            \o DropEvents(taken, DoneTiers \ {p}))
    /\ gpc' = "idle"
    /\ ready' = <<>>
    /\ getters' = [p \in MessagePriority |-> "none"]
    /\ taken' = [p \in MessagePriority |-> NoMsg]
    /\ UNCHANGED <<queues, putters, nextId, tracing>>
    /\ UNCHANGED <<busVars, aggVars, evVars, orchVars, strategyVars, policyVars>>

(***************************************************************************)
(* MessageBus, SharedContext and ErrorHandler                              *)
(***************************************************************************)
TaskIds == 1..MaxTasks
AgentIds == 1..NumAgents

\* priorities the clients give their tasks (Task.priority defaults to NORMAL)
TaskPriorities == {NORMAL}

\* "Asumir max 5 tareas": the divisor of load_factor in _handle_task_message
MaxAssumedTasks == 5

\* Task(priority=p, max_retries=mr): the other fields at their defaults
NewTask(p, mr) ==
    [status |-> "pending", priority |-> p, retry_count |-> 0, max_retries |-> mr,
     assigned_agent_id |-> 0, started_at |-> FALSE]

\* the agent types the agents register with and the tasks ask for
AgentTypes == {"document_processor", "data_analyzer"}

\* agent_type = None: Task.agent_type by default, and get_available_agents()
NoType == "none"

\* the values of the status field
AgentStatusValues == {"active", "idle", "busy", "offline"}

\* AgentContext(agent_id, agent_type, agent_name): status "active", no current
\* task, load_factor 0.0, last_heartbeat now. load_factor holds the numerator n
\* of n / 5.0; last_heartbeat is "late" once now - last_heartbeat exceeds the
\* two minutes of _heartbeat_monitor, and "recent" before; timed_out is history:
\* the last status of the context was set by _heartbeat_monitor
NewAgentContext(ty) ==
    [registered |-> TRUE, agent_type |-> ty, status |-> "active", current_tasks |-> <<>>,
     load_factor |-> 0, last_heartbeat |-> "recent", timed_out |-> FALSE,
     unregistered |-> FALSE]

\* an agent id that is not a key of SharedContext.agents
NoAgentContext ==
    [registered |-> FALSE, agent_type |-> NoType, status |-> "offline",
     current_tasks |-> <<>>, load_factor |-> 0, last_heartbeat |-> "recent",
     timed_out |-> FALSE, unregistered |-> FALSE]

NoEvents == [started |-> 0, completed |-> 0, failed |-> 0]

InList(x, s) == \E k \in 1..Len(s) : s[k] = x

\* Task.max_retries: `max_retries: int = 3`
DefaultMaxRetries == 3

\* handle_task_error with `<` for `<=`, as _handle_dispatch_failure of the task
\* dispatcher compares (a mutant of ShouldRetry)
ShouldRetryBelow(rc, mr) == rc < mr

\* handle_task_error: `if task.retry_count <= task.max_retries`, always retrying
\* once more (the mutant of ShouldRetry)
ShouldRetryOnceMore(rc, mr) == rc <= mr + 1

\* handle_task_error: `if task.retry_count <= task.max_retries`
ShouldRetry(rc, mr) == rc <= mr

\* get_available_agents without the load condition (the mutant of LoadBelowLimit)
LoadIgnored(n) == TRUE

\* get_available_agents: `agent.load_factor < 0.8`, for load_factor = n / 5.0
LoadBelowLimit(n) == 10 * n < 8 * MaxAssumedTasks

\* get_available_agents: `agent.status in ["active", "idle"] and
\* agent.load_factor < 0.8`
Available(c) == c.status \in {"active", "idle"} /\ LoadBelowLimit(c.load_factor)

\* get_available_agents without the type condition (the mutant of TypeMatches)
TypeIgnored(c, ty) == TRUE

\* get_available_agents: `agent_type is None or agent.agent_type == agent_type`
TypeMatches(c, ty) == ty = NoType \/ c.agent_type = ty

\* get_available_agents(ty): the available agents, in the order of self.agents
GetAvailableAgents(ag, order, ty) ==
    SelectSeq(order, LAMBDA a : Available(ag[a]) /\ TypeMatches(ag[a], ty))

\* min(available_agents, key=load_factor): the first agent of least load
MinLoadAgent(ag, av) ==
    av[Min({k \in 1..Len(av) :
               \A j \in 1..Len(av) : ag[av[k]].load_factor <= ag[av[j]].load_factor})]

\* the part of the state submit_task reads and writes
BusState ==
    [qs |-> QueueState, active_tasks |-> active_tasks, events |-> events, nextId |-> nextId]

\* MessageBus.submit_task(task) for the task t of priority p: the task is stored in
\* active_tasks, a TASK message carrying a copy of it is put, and TASK_STARTED is
\* published if the put returned True
SubmitTask(bs, t, p) ==
    LET m == Message(bs.nextId, p, t) IN
      [qs |-> Put(bs.qs, m),
       active_tasks |-> bs.active_tasks \cup {t},
       events |-> IF PutOutcome(bs.qs.queues, m) = "accepted"
                    THEN [bs.events EXCEPT ![t].started = @ + 1]
                    ELSE bs.events,
       nextId |-> bs.nextId + 1]

\* _retry_scheduler: `for task in retry_tasks: await self.submit_task(task)`
RECURSIVE SubmitAll(_, _, _)
SubmitAll(bs, ts, tk) ==
    IF ts = <<>> THEN bs
    ELSE SubmitAll(SubmitTask(bs, Head(ts), tk[Head(ts)].priority), Tail(ts), tk)

SetBusState(bs) ==
    /\ SetQueueState(bs.qs)
    /\ active_tasks' = bs.active_tasks
    /\ events' = bs.events
    /\ nextId' = bs.nextId

\* MessageBus.register_agent(a, ty, ...): a fresh AgentContext replaces the one
\* registered under the id, if any
RegisterAgent(a, ty) ==
    /\ agents' = [agents EXCEPT ![a] = NewAgentContext(ty)]
    /\ agent_order' = IF InList(a, agent_order) THEN agent_order ELSE Append(agent_order, a)
    /\ UNCHANGED <<task, nextTask, active_tasks, failed_tasks, retry_schedule, events,
                   retries_scheduled, hpc>>
    /\ UNCHANGED queueVars
    /\ UNCHANGED <<aggVars, evVars, orchVars, strategyVars, policyVars>>

\* MessageBus.unregister_agent(a): the context stays, its status becomes "offline"
\* (history, where it is kept: unregistered, until the id is registered again)
UnregisterAgent(a) ==
    /\ agents[a].registered
    /\ agents' = [agents EXCEPT ![a].status = "offline", ![a].unregistered = tracing]
    /\ UNCHANGED <<task, nextTask, active_tasks, failed_tasks, retry_schedule, agent_order,
                   events, retries_scheduled, hpc>>
    /\ UNCHANGED queueVars
    /\ UNCHANGED <<aggVars, evVars, orchVars, strategyVars, policyVars>>

\* MessageBus.update_agent_status(a, s): the status is set and last_heartbeat
\* becomes now
UpdateAgentStatus(a, s) ==
    /\ agents[a].registered
    /\ agents' = [agents EXCEPT ![a].status = s, ![a].last_heartbeat = "recent",
                                ![a].timed_out = FALSE]
    /\ UNCHANGED <<task, nextTask, active_tasks, failed_tasks, retry_schedule, agent_order,
                   events, retries_scheduled, hpc>>
    /\ UNCHANGED queueVars
    /\ UNCHANGED <<aggVars, evVars, orchVars, strategyVars, policyVars>>

\* _handle_heartbeat_message, for a HEARTBEAT message of sender a:
\* update_agent_status(a, "active")
HeartbeatMessage(a) ==
    /\ agents[a].registered
    /\ UpdateAgentStatus(a, "active")

\* time passes without a status update of agent a: now - last_heartbeat exceeds
\* the threshold of _heartbeat_monitor
HeartbeatOverdue(a) ==
    /\ agents[a].registered
    /\ agents[a].last_heartbeat = "recent"
    /\ agents' = [agents EXCEPT ![a].last_heartbeat = "late"]
    /\ UNCHANGED <<task, nextTask, active_tasks, failed_tasks, retry_schedule, agent_order,
                   events, retries_scheduled, hpc>>
    /\ UNCHANGED queueVars
    /\ UNCHANGED <<aggVars, evVars, orchVars, strategyVars, policyVars>>

\* _heartbeat_monitor, for active agents only (the mutant of HeartbeatExpired)
HeartbeatExpiredActive(c) == c.status = "active" /\ c.last_heartbeat = "late"

\* _heartbeat_monitor: `agent.status != "offline"` and
\* `now - agent.last_heartbeat > timeout_threshold`
HeartbeatExpired(c) == c.status # "offline" /\ c.last_heartbeat = "late"

\* _heartbeat_monitor, at agent a of its loop over the agents: an agent whose
\* heartbeat is overdue gets update_agent_status(a, "offline"), which also makes
\* last_heartbeat now, and AGENT_DISCONNECTED is published
HeartbeatMonitor(a) ==
    /\ agents[a].registered
    /\ HeartbeatExpired(agents[a])
    /\ agents' = [agents EXCEPT ![a].status = "offline", ![a].last_heartbeat = "recent",
                                ![a].timed_out = TRUE]
    /\ UNCHANGED <<task, nextTask, active_tasks, failed_tasks, retry_schedule, agent_order,
                   events, retries_scheduled, hpc>>
    /\ UNCHANGED queueVars
    /\ UNCHANGED <<aggVars, evVars, orchVars, strategyVars, policyVars>>

\* _handle_task_message for the message of a task of agent type ty that is not
\* one of the tracked tasks (id 0), with an agent available: the least loaded
\* available agent of the type gets the task id and its new load factor
DispatchTask(ty) ==
    /\ LET av == GetAvailableAgents(agents, agent_order, ty) IN
         /\ av # <<>>
         /\ LET a == MinLoadAgent(agents, av) IN
              agents' = [agents EXCEPT
                           ![a].current_tasks = Append(@, 0),
                           ![a].load_factor = Len(agents[a].current_tasks) + 1]
    /\ UNCHANGED <<task, nextTask, active_tasks, failed_tasks, retry_schedule, agent_order,
                   events, retries_scheduled, hpc>>
    /\ UNCHANGED queueVars
    /\ UNCHANGED <<aggVars, evVars, orchVars, strategyVars, policyVars>>

\* a client creates Task(priority=p, max_retries=mr) and calls submit_task
ClientSubmit(p, mr) ==
    /\ nextTask <= MaxTasks
    /\ task' = [task EXCEPT ![nextTask] = NewTask(p, mr)]
    /\ SetBusState(SubmitTask(BusState, nextTask, p))
    /\ nextTask' = nextTask + 1
    /\ UNCHANGED <<failed_tasks, retry_schedule, agents, agent_order, retries_scheduled, hpc>>
    /\ UNCHANGED <<gpc, taken, got, tracing>>
    /\ UNCHANGED <<aggVars, evVars, orchVars, strategyVars, policyVars>>

\* _message_processor: `message = await self.message_queue.get(timeout=1.0)`
ProcessorGet ==
    /\ hpc = "idle"
    /\ got = NoMsg
    /\ (GetImmediate \/ GetStartWait)

\* _handle_task_message(message): Task(**payload) is a new Task object; with an
\* agent available the least loaded one is selected, the new object is marked
\* running and the agent's context gains the task id; with none available the
\* handler sleeps before it puts the message back
HandleTaskMessage ==
    /\ hpc = "idle"
    /\ gpc = "idle"
    /\ got # NoMsg
    /\ LET av == GetAvailableAgents(agents, agent_order, NoType) IN
         IF av # <<>>
           THEN LET a == MinLoadAgent(agents, av) IN
                  /\ agents' = [agents EXCEPT
                                  ![a].current_tasks = Append(@, got.task),
                                  ![a].load_factor = Len(agents[a].current_tasks) + 1]
                  /\ got' = NoMsg
                  /\ hpc' = "idle"
           ELSE /\ hpc' = "sleeping"
                /\ UNCHANGED <<agents, got>>
    /\ UNCHANGED <<task, nextTask, active_tasks, failed_tasks, retry_schedule, agent_order,
                   events, retries_scheduled>>
    /\ UNCHANGED <<queues, putters, gpc, getters, taken, ready, nextId, trace,
                   tracing>>
    /\ UNCHANGED <<aggVars, evVars, orchVars, strategyVars, policyVars>>

\* _handle_task_message, after `await asyncio.sleep(1.0)`: the message is put
\* again; what put returns is not looked at
Requeue ==
    /\ hpc = "sleeping"
    /\ SetQueueState(Put(QueueState, got))
    /\ got' = NoMsg
    /\ hpc' = "idle"
    /\ UNCHANGED <<task, nextTask, active_tasks, failed_tasks, retry_schedule, agents,
                   agent_order, events, retries_scheduled>>
    /\ UNCHANGED <<gpc, taken, nextId, tracing>>
    /\ UNCHANGED <<aggVars, evVars, orchVars, strategyVars, policyVars>>

\* MessageBus.complete_task(t, result, a)
CompleteTask(t, a) ==
    /\ t \in active_tasks
    /\ task' = [task EXCEPT ![t].status = "completed"]
    /\ events' = [events EXCEPT ![t].completed = @ + 1]
    /\ active_tasks' = active_tasks \ {t}
    /\ UNCHANGED <<nextTask, failed_tasks, retry_schedule, agents, agent_order,
                   retries_scheduled, hpc>>
    /\ UNCHANGED queueVars
    /\ UNCHANGED <<aggVars, evVars, orchVars, strategyVars, policyVars>>

\* ErrorHandler.handle_task_error: retry_schedule[task.id] = retry_time
ScheduleRetry(sch, t) ==
    IF \E k \in 1..Len(sch) : sch[k].id = t
      THEN [k \in 1..Len(sch) |-> IF sch[k].id = t THEN [id |-> t, due |-> FALSE] ELSE sch[k]]
      ELSE Append(sch, [id |-> t, due |-> FALSE])

\* MessageBus.fail_task(t, error, a), with ErrorHandler.handle_task_error, called
\* for a task that was created. For a task in active_tasks retry_count is
\* incremented; within max_retries a retry time is scheduled, otherwise the task
\* is marked failed, stored in failed_tasks, TASK_FAILED is published and the
\* task leaves active_tasks. For a task that is not in active_tasks the call
\* returns False and nothing else happens. The call is logged in the history.
FailTask(t, a) ==
    /\ t < nextTask
    /\ Cardinality({k \in 1..Len(trace) : trace[k].ev = "fail_task"}) < MaxFailCalls
    /\ trace' = Log(trace, <<[ev |-> "fail_task", id |-> t, priority |-> 0]>>)
    /\ IF t \in active_tasks
         THEN IF ShouldRetry(task[t].retry_count + 1, task[t].max_retries)
                THEN /\ task' = [task EXCEPT ![t].retry_count = @ + 1]
                     /\ retry_schedule' = ScheduleRetry(retry_schedule, t)
                     /\ retries_scheduled' = [retries_scheduled EXCEPT ![t] = @ + 1]
                     /\ UNCHANGED <<failed_tasks, events, active_tasks>>
                ELSE /\ task' = [task EXCEPT ![t].retry_count = @ + 1,
                                             ![t].status = "failed"]
                     /\ failed_tasks' = failed_tasks \cup {t}
                     /\ events' = [events EXCEPT ![t].failed = @ + 1]
                     /\ active_tasks' = active_tasks \ {t}
                     /\ UNCHANGED <<retry_schedule, retries_scheduled>>
         ELSE UNCHANGED <<task, retry_schedule, retries_scheduled, failed_tasks, events,
                          active_tasks>>
    /\ UNCHANGED <<nextTask, agents, agent_order, hpc>>
    /\ UNCHANGED <<queues, putters, gpc, getters, taken, ready, got, nextId, tracing>>
    /\ UNCHANGED <<aggVars, evVars, orchVars, strategyVars, policyVars>>

\* time passes: the retry time of a scheduled entry is reached
RetryTimeReached ==
    /\ \E k \in 1..Len(retry_schedule) :
         /\ ~retry_schedule[k].due
         /\ retry_schedule' = [retry_schedule EXCEPT ![k].due = TRUE]
    /\ UNCHANGED <<task, nextTask, active_tasks, failed_tasks, agents, agent_order, events,
                   retries_scheduled, hpc>>
    /\ UNCHANGED queueVars
    /\ UNCHANGED <<aggVars, evVars, orchVars, strategyVars, policyVars>>

\* ErrorHandler.get_retry_tasks: the ids of the due entries that are keys of
\* failed_tasks, in the order of retry_schedule
ReadyTasks ==
    LET due == SelectSeq(retry_schedule, LAMBDA e : e.due /\ e.id \in failed_tasks)
    IN [k \in 1..Len(due) |-> due[k].id]

\* one round of _retry_scheduler: get_retry_tasks drops every due entry; the tasks
\* of those found in failed_tasks leave it, become "pending" and are submitted
RetrySweep ==
    /\ \E k \in 1..Len(retry_schedule) : retry_schedule[k].due
    /\ retry_schedule' = SelectSeq(retry_schedule, LAMBDA e : ~e.due)
    /\ failed_tasks' = failed_tasks \ {ReadyTasks[k] : k \in 1..Len(ReadyTasks)}
    /\ LET tk == [t \in TaskIds |->
                    IF InList(t, ReadyTasks) THEN [task[t] EXCEPT !.status = "pending"]
                    ELSE task[t]]
       IN /\ task' = tk
          /\ SetBusState(SubmitAll(BusState, ReadyTasks, tk))
    /\ UNCHANGED <<nextTask, agents, agent_order, retries_scheduled, hpc>>
    /\ UNCHANGED <<gpc, taken, got, tracing>>
    /\ UNCHANGED <<aggVars, evVars, orchVars, strategyVars, policyVars>>

\* MessageBus.__init__: no task, no agent, nothing scheduled
BusConstructed ==
    /\ task = [t \in TaskIds |-> NewTask(NORMAL, 0)]
    /\ nextTask = 1
    /\ active_tasks = {}
    /\ failed_tasks = {}
    /\ retry_schedule = <<>>
    /\ agents = [a \in AgentIds |-> NoAgentContext]
    /\ agent_order = <<>>
    /\ events = [t \in TaskIds |-> NoEvents]
    /\ retries_scheduled = [t \in TaskIds |-> 0]
    /\ hpc = "idle"

\* the bus as the tracked clients find it: just constructed, or after agent 1 was
\* dispatched PreAssigned earlier tasks (id 0), all of them completed since
BusInit ==
    /\ task = [t \in TaskIds |-> NewTask(NORMAL, 0)]
    /\ nextTask = 1
    /\ active_tasks = {}
    /\ failed_tasks = {}
    /\ retry_schedule = <<>>
    /\ \/ /\ agents = [a \in AgentIds |-> NoAgentContext]
          /\ agent_order = <<>>
       \/ /\ agents = [a \in AgentIds |->
                         IF a = 1 THEN [NewAgentContext("document_processor") EXCEPT
                                          !.current_tasks = [k \in 1..PreAssigned |-> 0],
                                          !.load_factor = PreAssigned]
                         ELSE NoAgentContext]
          /\ agent_order = <<1>>
    /\ events = [t \in TaskIds |-> NoEvents]
    /\ retries_scheduled = [t \in TaskIds |-> 0]
    /\ hpc = "idle"

(***************************************************************************)
(* ResultAggregator                                                         *)
(***************************************************************************)
\* task ids a TaskResult may carry
ResultTaskIds == 1..MaxResults

\* orchestrator.active_workflows, in insertion order: two workflows that share
\* task 2
ActiveWorkflows ==
    <<[workflow_id |-> 1, task_ids |-> {1, 2}],
      [workflow_id |-> 2, task_ids |-> {2, 3}]>>

WorkflowIds == {ActiveWorkflows[k].workflow_id : k \in 1..Len(ActiveWorkflows)}

\* orchestrator.active_workflows[w]
WorkflowTasks(w) ==
    LET k == CHOOSE k \in 1..Len(ActiveWorkflows) : ActiveWorkflows[k].workflow_id = w
    IN ActiveWorkflows[k].task_ids

\* an entry of aggregated_results: the task ids whose results it consolidates and
\* whether created_at lies before the cleanup cutoff
NoAggregatedResult == [present |-> FALSE, task_ids |-> {}, old |-> FALSE]

\* the part of the state aggregate_workflow_results writes
AggState == [aggregated_results |-> aggregated_results, aggregations |-> aggregations]

\* the keys of self.task_results
Recorded(tr) == {t \in ResultTaskIds : tr[t] # "none"}

\* aggregate_workflow_results(w): `if not task_results: return None`
MayAggregate(have, all) == have # {}

\* aggregate_workflow_results(w) with the task results tr: the results recorded
\* for the workflow's task ids are consolidated into a new AggregatedResult,
\* which replaces the stored one, and aggregations_performed is incremented
AggregateWorkflowResults(st, tr, w) ==
    LET have == WorkflowTasks(w) \cap Recorded(tr) IN
      IF ~MayAggregate(have, WorkflowTasks(w)) THEN st
      ELSE [aggregated_results |->
                [st.aggregated_results EXCEPT
                    ![w] = [present |-> TRUE, task_ids |-> have, old |-> FALSE]],
            aggregations |-> [st.aggregations EXCEPT ![w] = @ + 1]]

\* _check_workflow_completion(t): the first workflow that lists t, or 0
FirstWorkflowOf(t) ==
    LET ks == {k \in 1..Len(ActiveWorkflows) : t \in ActiveWorkflows[k].task_ids}
    IN IF ks = {} THEN 0 ELSE ActiveWorkflows[Min(ks)].workflow_id

\* _check_workflow_completion(t): the first workflow that lists t is aggregated
\* if all its task ids have a result and it has no aggregated result
CheckWorkflowCompletion(st, tr, t) ==
    LET w == FirstWorkflowOf(t) IN
      IF w # 0 /\ WorkflowTasks(w) \subseteq Recorded(tr) /\ ~st.aggregated_results[w].present
        THEN AggregateWorkflowResults(st, tr, w)
        ELSE st

SetAggState(st) ==
    /\ aggregated_results' = st.aggregated_results
    /\ aggregations' = st.aggregations

\* add_task_result(result) for a valid result of task t: the result is stored and
\* the completion of the workflow of t is checked
AddTaskResult(t) ==
    /\ LET tr == [task_results EXCEPT ![t] = "fresh"]
           st == CheckWorkflowCompletion(AggState, tr, t)
       IN /\ \A w \in WorkflowIds : st.aggregations[w] <= MaxAggregations
          /\ task_results' = tr
          /\ SetAggState(st)
    /\ UNCHANGED <<queueVars, busVars, evVars, orchVars, strategyVars, policyVars>>

\* a caller invokes aggregate_workflow_results(w)
CallAggregate(w) ==
    /\ aggregations[w] < MaxAggregations
    /\ SetAggState(AggregateWorkflowResults(AggState, task_results, w))
    /\ UNCHANGED task_results
    /\ UNCHANGED <<queueVars, busVars, evVars, orchVars, strategyVars, policyVars>>

\* time passes: everything stored is now older than max_result_age (24 hours)
ResultsAge ==
    /\ \/ \E t \in ResultTaskIds : task_results[t] = "fresh"
       \/ \E w \in WorkflowIds : aggregated_results[w].present /\ ~aggregated_results[w].old
    /\ task_results' = [t \in ResultTaskIds |->
                          IF task_results[t] = "fresh" THEN "old" ELSE task_results[t]]
    /\ aggregated_results' = [w \in WorkflowIds |->
                                IF aggregated_results[w].present
                                  THEN [aggregated_results[w] EXCEPT !.old = TRUE]
                                  ELSE aggregated_results[w]]
    /\ UNCHANGED aggregations
    /\ UNCHANGED <<queueVars, busVars, evVars, orchVars, strategyVars, policyVars>>

\* _cleanup_old_results: the task results and the aggregated results older than
\* the cutoff are deleted
CleanupOldResults ==
    /\ \/ \E t \in ResultTaskIds : task_results[t] = "old"
       \/ \E w \in WorkflowIds : aggregated_results[w].old
    /\ task_results' = [t \in ResultTaskIds |->
                          IF task_results[t] = "old" THEN "none" ELSE task_results[t]]
    /\ aggregated_results' = [w \in WorkflowIds |->
                                IF aggregated_results[w].old THEN NoAggregatedResult
                                ELSE aggregated_results[w]]
    /\ UNCHANGED aggregations
    /\ UNCHANGED <<queueVars, busVars, evVars, orchVars, strategyVars, policyVars>>

\* ResultAggregator.__init__
AggInit ==
    /\ task_results = [t \in ResultTaskIds |-> "none"]
    /\ aggregated_results = [w \in WorkflowIds |-> NoAggregatedResult]
    /\ aggregations = [w \in WorkflowIds |-> 0]

(***************************************************************************)
(* EventBus                                                                 *)
(***************************************************************************)
Handlers == 1..NumHandlers

\* EventType values of the events published
EventTypes == {"task_failed"}

\* the topics the callbacks subscribe to, "*" apart
Topics == {"task_failed", "alerts"}

Wildcard == "*"

\* publish(event): topic = None
NoTopic == "none"

NoPublish == [topic |-> NoTopic, default_topic |-> FALSE, exact |-> 0, invoked |-> <<>>,
              delivered_count |-> 0]

\* the orders in which `for callback in <set>.copy()` may visit a set of callbacks:
\* a set of function objects iterates in the order of their hashes, which are
\* taken from their addresses
Orders(S) ==
    {f \in [1..Cardinality(S) -> S] : \A i, j \in 1..Cardinality(S) : i # j => f[i] # f[j]}

\* one round of a notification loop with delivered_count += 1 after the try
\* block (the mutant of Invoke)
InvokeCounted(acc, h, raising) ==
    [invoked |-> Append(acc.invoked, [handler |-> h, raised |-> h \in raising]),
     delivered_count |-> acc.delivered_count + 1]

\* one round of a notification loop of publish: the callback is called inside
\* try; delivered_count += 1 if it returned, the exception is logged otherwise
Invoke(acc, h, raising) ==
    [invoked |-> Append(acc.invoked, [handler |-> h, raised |-> h \in raising]),
     delivered_count |-> IF h \in raising THEN acc.delivered_count
                         ELSE acc.delivered_count + 1]

\* a notification loop of publish over the callbacks in the order cbs
RECURSIVE Notify(_, _, _)
Notify(cbs, raising, acc) ==
    IF cbs = <<>> THEN acc
    ELSE Notify(Tail(cbs), raising, Invoke(acc, Head(cbs), raising))

\* EventBus.subscribe(topic, h)
Subscribe(topic, h) ==
    /\ Len(subscribed) < MaxSubscribes
    /\ IF topic = Wildcard
         THEN /\ wildcard_subscribers' = wildcard_subscribers \cup {h}
              /\ UNCHANGED subscribers
         ELSE /\ subscribers' = [subscribers EXCEPT ![topic] = @ \cup {h}]
              /\ UNCHANGED wildcard_subscribers
    /\ subscribed' = Append(subscribed, [topic |-> topic, handler |-> h])
    /\ UNCHANGED <<events_published, last_publish>>
    /\ UNCHANGED <<queueVars, busVars, aggVars, orchVars, strategyVars, policyVars>>

\* EventBus.unsubscribe(topic, h): the callback is discarded from the set of the
\* topic; the oldest subscription of h to the topic is the one given up.
Unsubscribe(topic, h) ==
    /\ IF topic = Wildcard
         THEN /\ wildcard_subscribers' = wildcard_subscribers \ {h}
              /\ UNCHANGED subscribers
         ELSE /\ subscribers' = [subscribers EXCEPT ![topic] = @ \ {h}]
              /\ UNCHANGED wildcard_subscribers
    /\ LET mine == {k \in 1..Len(subscribed) :
                       subscribed[k] = [topic |-> topic, handler |-> h]}
       IN subscribed' = IF mine = {} THEN subscribed
                        ELSE SubSeq(subscribed, 1, Min(mine) - 1)
                               \o SubSeq(subscribed, Min(mine) + 1, Len(subscribed))
    /\ UNCHANGED <<events_published, last_publish>>
    /\ UNCHANGED <<queueVars, busVars, aggVars, orchVars, strategyVars, policyVars>>

\* EventBus.publish(event, tp) for an event of type et; tp = NoTopic: the topic is
\* the value of the event type. The callbacks of `raising` raise when called.
Publish(et, tp) ==
    /\ events_published < MaxPublishes
    /\ events_published' = events_published + 1
    /\ LET topic == IF tp = NoTopic THEN et ELSE tp
           exact == IF topic \in Topics THEN subscribers[topic] ELSE {}
       IN \E eo \in Orders(exact) : \E wo \in Orders(wildcard_subscribers) :
          \E raising \in SUBSET Handlers :
            LET r == Notify(wo, raising,
                            Notify(eo, raising, [invoked |-> <<>>, delivered_count |-> 0]))
            IN last_publish' = [topic |-> topic, default_topic |-> tp = NoTopic,
                                exact |-> Len(eo), invoked |-> r.invoked,
                                delivered_count |-> r.delivered_count]
    /\ UNCHANGED <<subscribers, wildcard_subscribers, subscribed>>
    /\ UNCHANGED <<queueVars, busVars, aggVars, orchVars, strategyVars, policyVars>>

\* EventBus.__init__
EventBusInit ==
    /\ subscribers = [t \in Topics |-> {}]
    /\ wildcard_subscribers = {}
    /\ events_published = 0
    /\ subscribed = <<>>
    /\ last_publish = NoPublish

(***************************************************************************)
(* SIAMEOrchestrator and TaskDispatcher                                     *)
(***************************************************************************)
OrchTaskIds == 1..MaxOrchTasks

OrchAgentIds == 1..NumOrchAgents

\* TaskDispatcher.__init__: self.max_retries
DispatchMaxRetries == 3

\* Task.priority of a new Task
DefaultPriority == 5

\* a task id that orchestrator.tasks does not hold
NoOrchTask == [status |-> "none", retry_count |-> 0]

\* an agent id that orchestrator.agents does not hold
NoOrchAgent == [registered |-> FALSE, is_active |-> FALSE, max_concurrent_tasks |-> 0,
                current_tasks |-> <<>>]

\* the conditions `agent.is_active and len(agent.current_tasks) <
\* agent.max_concurrent_tasks` of the two agent filters; every agent has the
\* type the tasks require and supports every document type
HasFreeSlot(ag) ==
    ag.registered /\ ag.is_active /\ Len(ag.current_tasks) < ag.max_concurrent_tasks

\* min(suitable_agents, key=len(current_tasks)): the first of the least loaded
\* agents in the order of orchestrator.agents, 0 for an empty list
LeastLoaded(ags) ==
    LET S == {a \in OrchAgentIds : HasFreeSlot(ags[a])}
        L(a) == Len(ags[a].current_tasks)
    IN IF S = {} THEN 0
       ELSE Min({a \in S : \A b \in S : L(a) <= L(b)})

\* _select_agent_for_task: the list comprehension calls
\* any(agent.type in task.required_agents), any() of a bool, for the first agent
\* that passes the conditions before it: TypeError (-1). With no such agent the
\* list is empty and None (0) is returned.
SelectAgentForTask(ags) ==
    IF \E a \in OrchAgentIds : HasFreeSlot(ags[a]) THEN -1 ELSE 0

\* _dispatch_single_task: False if no agent was selected or an exception was
\* caught; _send_task_to_agent returns True
DispatchSingleTask(ags) == SelectAgentForTask(ags) > 0

\* PriorityQueue.put: TaskQueueItems are ordered by priority, then by timestamp
QueuePut(q, item) ==
    LET n == Cardinality({k \in 1..Len(q) : q[k].priority <= item.priority})
    IN SubSeq(q, 1, n) \o <<item>> \o SubSeq(q, n + 1, Len(q))

\* SIAMEOrchestrator.register_agent(Agent(max_concurrent_tasks=m))
OrchRegisterAgent(m) ==
    /\ \E a \in OrchAgentIds : ~orch_agents[a].registered
    /\ LET a == Min({b \in OrchAgentIds : ~orch_agents[b].registered})
       IN orch_agents' = [orch_agents EXCEPT ![a] =
                            [registered |-> TRUE, is_active |-> TRUE,
                             max_concurrent_tasks |-> m, current_tasks |-> <<>>]]
    /\ UNCHANGED <<tasks, pending_tasks, task_queue, exposes_task_status, last_cancel>>
    /\ UNCHANGED <<queueVars, busVars, aggVars, evVars, strategyVars, policyVars>>

\* Task.required_agents of the tasks submitted; every registered agent is of
\* type "analyst" and no agent of type "legal_analyzer" is registered
RequiredAgents == {<<"analyst">>, <<"analyst", "legal_analyzer">>}

\* _assign_agents_to_task(t): for each required agent type in turn, the task id
\* is appended to the current_tasks of the least loaded suitable agent; with no
\* suitable agent for a type ValueError is raised there and then
RECURSIVE AssignAgents(_, _, _)
AssignAgents(ags, t, required) ==
    IF required = <<>> THEN [agents |-> ags, raised |-> FALSE]
    ELSE LET a == IF Head(required) = "analyst" THEN LeastLoaded(ags) ELSE 0
         IN IF a = 0 THEN [agents |-> ags, raised |-> TRUE]
            ELSE AssignAgents([ags EXCEPT ![a].current_tasks = Append(@, t)],
                              t, Tail(required))

\* SIAMEOrchestrator.submit_task(task) for a new task with the given
\* required_agents and no dependencies. When _assign_agents_to_task raises
\* ValueError the task is marked FAILED and the error re-raised.
\* Then dispatch_task: _validate_task reads self.orchestrator.TaskStatus, which
\* raises AttributeError for an orchestrator without that attribute; dispatch_task
\* catches it and returns False with nothing queued. Otherwise the task is put on
\* task_queue and stored in pending_tasks.
OrchSubmitTask(required) ==
    /\ \E t \in OrchTaskIds : tasks[t].status = "none"
    /\ LET t == Min({u \in OrchTaskIds : tasks[u].status = "none"})
           r == AssignAgents(orch_agents, t, required)
       IN /\ orch_agents' = r.agents
          /\ IF r.raised
               THEN /\ tasks' = [tasks EXCEPT ![t].status = "failed"]
                    /\ UNCHANGED <<pending_tasks, task_queue>>
               ELSE /\ tasks' = [tasks EXCEPT ![t].status = "pending"]
                    /\ IF exposes_task_status
                         THEN /\ task_queue' = QueuePut(task_queue,
                                                  [priority |-> DefaultPriority, task_id |-> t])
                              /\ pending_tasks' = pending_tasks \cup {t}
                         ELSE UNCHANGED <<pending_tasks, task_queue>>
    /\ UNCHANGED <<exposes_task_status, last_cancel>>
    /\ UNCHANGED <<queueVars, busVars, aggVars, evVars, strategyVars, policyVars>>

\* one round of the loop of _process_task_batch: the next item is taken from
\* task_queue and skipped if its task is no longer pending. After a successful
\* dispatch the task is IN_PROGRESS, listed by the agent and no longer pending.
\* After a failed one _handle_dispatch_failure counts the attempt in
\* metadata["retry_count"] and puts the task back with priority + 1 while the
\* count is below max_retries; otherwise the task is marked FAILED and leaves
\* pending_tasks.
ProcessTaskBatch ==
    /\ task_queue # <<>>
    /\ LET t == Head(task_queue).task_id
           sel == SelectAgentForTask(orch_agents)
       IN IF t \notin pending_tasks
            THEN /\ task_queue' = Tail(task_queue)
                 /\ UNCHANGED <<tasks, orch_agents, pending_tasks>>
            ELSE IF DispatchSingleTask(orch_agents)
                   THEN /\ tasks' = [tasks EXCEPT ![t].status = "in_progress"]
                        /\ orch_agents' = [orch_agents EXCEPT
                                             ![sel].current_tasks = Append(@, t)]
                        /\ pending_tasks' = pending_tasks \ {t}
                        /\ task_queue' = Tail(task_queue)
                   ELSE IF tasks[t].retry_count + 1 < DispatchMaxRetries
                          THEN /\ tasks' = [tasks EXCEPT ![t].retry_count = @ + 1]
                               /\ task_queue' = QueuePut(Tail(task_queue),
                                                  [priority |-> DefaultPriority + 1,
                                                   task_id |-> t])
                               /\ UNCHANGED <<orch_agents, pending_tasks>>
                          ELSE /\ tasks' = [tasks EXCEPT ![t].retry_count = @ + 1,
                                                         ![t].status = "failed"]
                               /\ pending_tasks' = pending_tasks \ {t}
                               /\ task_queue' = Tail(task_queue)
                               /\ UNCHANGED orch_agents
    /\ UNCHANGED <<exposes_task_status, last_cancel>>
    /\ UNCHANGED <<queueVars, busVars, aggVars, evVars, strategyVars, policyVars>>

\* TaskDispatcher.cancel_task(t): a task in pending_tasks is marked CANCELLED and
\* removed, True; reading self.orchestrator.TaskStatus on an orchestrator without
\* that attribute raises AttributeError, which is caught: False. A task id that is
\* not in pending_tasks: False.
CancelTask(t) ==
    /\ IF t \in pending_tasks /\ exposes_task_status
         THEN /\ tasks' = [tasks EXCEPT ![t].status = "cancelled"]
              /\ pending_tasks' = pending_tasks \ {t}
              /\ last_cancel' = [task_id |-> t, status_before |-> tasks[t].status,
                                 returned |-> TRUE]
         ELSE /\ last_cancel' = [task_id |-> t, status_before |-> tasks[t].status,
                                 returned |-> FALSE]
              /\ UNCHANGED <<tasks, pending_tasks>>
    /\ UNCHANGED <<orch_agents, task_queue, exposes_task_status>>
    /\ UNCHANGED <<queueVars, busVars, aggVars, evVars, strategyVars, policyVars>>

\* SIAMEOrchestrator.__init__ and TaskDispatcher.__init__
OrchInit ==
    /\ tasks = [t \in OrchTaskIds |-> NoOrchTask]
    /\ orch_agents = [a \in OrchAgentIds |-> NoOrchAgent]
    /\ pending_tasks = {}
    /\ task_queue = <<>>
    /\ last_cancel = [task_id |-> 0, status_before |-> "none", returned |-> FALSE]

\* TaskDispatcher(self) of SIAMEOrchestrator.__init__: SIAMEOrchestrator has no
\* attribute TaskStatus (the enum is a name of the module main)
OrchConstructed ==
    /\ OrchInit
    /\ exposes_task_status = FALSE

(***************************************************************************)
(* ResultAggregator: the aggregation strategies                             *)
(***************************************************************************)
\* the keys of TaskResult.data
DataKeys == {"title", "parties"}

\* data[k] of a TaskResult whose data has no key k
Absent == 0

\* ResultType values of the task results
ResultTypes == {"document_analysis", "legal_analysis"}

\* TaskResult.agent_type values of the task results
ResultAgentTypes == {"analyst", "legal_analyzer"}

\* AggregationStrategy values
Strategies == {"merge", "consensus", "best_score", "weighted_average"}

\* the TaskResults a workflow may hold, _validate_result passed
TaskResults ==
    [agent_type : ResultAgentTypes, result_type : ResultTypes,
     confidence_score : 0..MaxConfidence,
     data : [DataKeys -> {Absent} \cup 1..MaxValue]]

\* confidence_scores[rt] of a result type without an entry
NoScore == -1

\* consolidated_data[rt] of the best-score strategy for a result type without
\* an entry
NoData == [present |-> FALSE, data |-> [k \in DataKeys |-> Absent]]

\* _merge_results with `consolidated[key] = [entry]` in place of append: the
\* entries of key k after the loop
ConsolidatedOverwritten(rs, k) ==
    LET F[i \in 0..Len(rs)] ==
          IF i = 0 THEN <<>>
          ELSE IF rs[i].data[k] = Absent THEN F[i - 1]
               ELSE <<[value |-> rs[i].data[k], agent_type |-> rs[i].agent_type,
                       confidence |-> rs[i].confidence_score]>>
    IN F[Len(rs)]

\* _merge_results: consolidated[k] after `for result in aggregated.task_results`,
\* every result with a key k appends its value, agent type and confidence;
\* <<>> for a key no result has
Consolidated(rs, k) ==
    LET F[i \in 0..Len(rs)] ==
          IF i = 0 THEN <<>>
          ELSE IF rs[i].data[k] = Absent THEN F[i - 1]
               ELSE Append(F[i - 1],
                           [value |-> rs[i].data[k], agent_type |-> rs[i].agent_type,
                            confidence |-> rs[i].confidence_score])
    IN F[Len(rs)]

\* _merge_results: confidence_scores[rt] is assigned by every result of type rt,
\* the last one stays
LastScore(rs, rt) ==
    LET S == {i \in 1..Len(rs) : rs[i].result_type = rt}
    IN IF S = {} THEN NoScore
       ELSE rs[CHOOSE i \in S : \A j \in S : j <= i].confidence_score

\* _best_score_aggregation with the last result of a type kept
LastResult(rs, rt) ==
    LET S == {i \in 1..Len(rs) : rs[i].result_type = rt}
    IN IF S = {} THEN 0 ELSE CHOOSE i \in S : \A j \in S : j <= i

\* _best_score_aggregation: max(results, key=confidence_score) over the results
\* of type rt in list order, the first of the results with the highest score;
\* 0 if there is none
BestResult(rs, rt) ==
    LET S == {i \in 1..Len(rs) : rs[i].result_type = rt}
    IN IF S = {} THEN 0
       ELSE Min({i \in S : \A j \in S : rs[j].confidence_score <= rs[i].confidence_score})

\* _create_aggregated_result(workflow_id, task_results, s): best-score has its own
\* aggregation, every other strategy ends in _merge_results
CreateAggregatedResult(s) ==
    /\ strategy = "none"
    /\ strategy' = s
    /\ IF s = "best_score"
         THEN /\ consolidated_data' =
                    [rt \in ResultTypes |->
                        IF BestResult(agg_task_results, rt) = 0 THEN NoData
                        ELSE [present |-> TRUE,
                              data |-> agg_task_results[BestResult(agg_task_results, rt)].data]]
              /\ confidence_scores' =
                    [rt \in ResultTypes |->
                        IF BestResult(agg_task_results, rt) = 0 THEN NoScore
                        ELSE agg_task_results[BestResult(agg_task_results, rt)].confidence_score]
         ELSE /\ consolidated_data' = [k \in DataKeys |-> Consolidated(agg_task_results, k)]
              /\ confidence_scores' = [rt \in ResultTypes |-> LastScore(agg_task_results, rt)]
    /\ UNCHANGED agg_task_results
    /\ UNCHANGED <<queueVars, busVars, aggVars, evVars, orchVars, policyVars>>

\* no aggregation is under way
StrategiesIdle ==
    /\ agg_task_results = <<>>
    /\ strategy = "none"
    /\ consolidated_data = <<>>
    /\ confidence_scores = <<>>

(***************************************************************************)
(* ErrorHandler backoff                                                     *)
(***************************************************************************)
\* 2 ** n
RECURSIVE Pow2(_)
Pow2(n) == IF n = 0 THEN 1 ELSE 2 * Pow2(n - 1)

\* mutant of Delay: the delay is not capped
DelayUncapped(n, jitter, max_retry_delay) == Pow2(n) * JitterSteps + jitter

\* handle_task_error: min((2 ** n) + (time.time() % 1), max_retry_delay), where
\* time.time() % 1 is jitter / JitterSteps; the result in 1/JitterSteps second
Delay(n, jitter, max_retry_delay) ==
    LET d == Pow2(n) * JitterSteps + jitter
    IN IF d <= max_retry_delay * JitterSteps THEN d ELSE max_retry_delay * JitterSteps

\* ErrorHandler.handle_task_error on the retry path, for one task that fails
\* again and again: retry_count is incremented and the delay is computed from it
HandleTaskError(jitter) ==
    /\ Len(backoff.delays) < MaxBackoffRetries
    /\ backoff' = [backoff EXCEPT !.delays =
                       Append(@, Delay(Len(@) + 1, jitter, backoff.max_retry_delay))]
    /\ UNCHANGED selections
    /\ UNCHANGED <<queueVars, busVars, aggVars, evVars, orchVars, strategyVars>>

\* TaskDispatcher._select_round_robin(agents): random.choice(agents), any agent
\* of the eligible pool; the selection is recorded in the history
SelectRoundRobin ==
    /\ Len(selections.selected) < MaxSelections
    /\ \E a \in selections.pool :
          selections' = [selections EXCEPT !.selected = Append(@, a)]
    /\ UNCHANGED backoff
    /\ UNCHANGED <<queueVars, busVars, aggVars, evVars, orchVars, strategyVars>>

\* no task has failed and no agent was selected
PoliciesIdle ==
    /\ backoff = [max_retry_delay |-> 0, delays |-> <<>>]
    /\ selections = [pool |-> {}, selected |-> <<>>]

(***************************************************************************)
(* Specifications                                                           *)
(***************************************************************************)
\* MessageQueue.__init__
QueueInit ==
    /\ queues = [p \in MessagePriority |-> <<>>]
    /\ putters = <<>>
    /\ gpc = "idle"
    /\ getters = [p \in MessagePriority |-> "none"]
    /\ taken = [p \in MessagePriority |-> NoMsg]
    /\ ready = <<>>
    /\ got = NoMsg
    /\ nextId = 1
    /\ trace = <<>>

\* MessageQueue alone: producers that put, one consumer that calls get(timeout)
SpecQueueInit ==
    /\ QueueInit
    /\ tracing = TRUE
    /\ BusConstructed
    /\ AggInit
    /\ EventBusInit
    /\ OrchConstructed
    /\ StrategiesIdle
    /\ PoliciesIdle

QueueNext ==
    \/ \E p \in MessagePriority : Producer(p)
    \/ PutResume
    \/ GetImmediate
    \/ GetStartWait
    \/ GetterRun
    \/ WaitCallbackRun
    \/ GetTimeout
    \/ GetResume

SpecQueue == SpecQueueInit /\ [][QueueNext]_vars

\* SpecQueue with the event loop running whatever is ready to run: a suspended
\* queue.put resumes once its tier has room, woken queue.get() tasks and
\* callbacks are run, the timeout of get fires. Producers and consumers call
\* put and get when they like, or never.
SpecQueueFair ==
    /\ SpecQueue
    /\ WF_vars(PutResume)
    /\ WF_vars(GetterRun)
    /\ WF_vars(WaitCallbackRun)
    /\ WF_vars(GetTimeout)
    /\ WF_vars(GetResume)

\* MessageBus with its workers (_message_processor, _retry_scheduler), the clients
\* that submit tasks and the agents that register and report
SpecBusInit ==
    /\ QueueInit
    /\ tracing = FALSE
    /\ BusInit
    /\ AggInit
    /\ EventBusInit
    /\ OrchConstructed
    /\ StrategiesIdle
    /\ PoliciesIdle

\* the status values the agents report with update_agent_status
AgentStatus == {"active", "offline"}

BusNext ==
    \/ \E a \in AgentIds : RegisterAgent(a, "document_processor")
    \/ \E a \in AgentIds : UnregisterAgent(a)
    \/ \E a \in AgentIds : \E s \in AgentStatus : UpdateAgentStatus(a, s)
    \/ \E p \in TaskPriorities : \E mr \in 0..MaxRetries : ClientSubmit(p, mr)
    \/ ProcessorGet
    \/ GetterRun
    \/ WaitCallbackRun
    \/ GetTimeout
    \/ GetResume
    \/ HandleTaskMessage
    \/ Requeue
    \/ \E t \in TaskIds : \E a \in AgentIds : CompleteTask(t, a)
    \/ \E t \in TaskIds : \E a \in AgentIds : FailTask(t, a)
    \/ RetryTimeReached
    \/ RetrySweep

SpecBus == SpecBusInit /\ [][BusNext]_vars

\* ResultAggregator with the callers that add task results and ask for
\* aggregations, and its cleanup loop
SpecAggInit ==
    /\ QueueInit
    /\ tracing = FALSE
    /\ BusConstructed
    /\ AggInit
    /\ EventBusInit
    /\ OrchConstructed
    /\ StrategiesIdle
    /\ PoliciesIdle

AggNext ==
    \/ \E t \in ResultTaskIds : AddTaskResult(t)
    \/ \E w \in WorkflowIds : CallAggregate(w)
    \/ ResultsAge
    \/ CleanupOldResults

SpecAgg == SpecAggInit /\ [][AggNext]_vars

\* MessageBus with the clients that submit tasks, the agents that report the
\* outcome of a task and the retry scheduler, the history of the calls kept
SpecFailInit ==
    /\ QueueInit
    /\ tracing = TRUE
    /\ BusConstructed
    /\ AggInit
    /\ EventBusInit
    /\ OrchConstructed
    /\ StrategiesIdle
    /\ PoliciesIdle

FailNext ==
    \/ \E p \in TaskPriorities : \E mr \in 0..MaxRetries : ClientSubmit(p, mr)
    \/ \E p \in TaskPriorities : ClientSubmit(p, DefaultMaxRetries)
    \/ \E t \in TaskIds : \E a \in AgentIds : CompleteTask(t, a)
    \/ \E t \in TaskIds : \E a \in AgentIds : FailTask(t, a)
    \/ RetryTimeReached
    \/ RetrySweep

SpecFail == SpecFailInit /\ [][FailNext]_vars

\* EventBus with the callers that subscribe callbacks and publish events
SpecEventsInit ==
    /\ QueueInit
    /\ tracing = FALSE
    /\ BusConstructed
    /\ AggInit
    /\ EventBusInit
    /\ OrchConstructed
    /\ StrategiesIdle
    /\ PoliciesIdle

EventsNext ==
    \/ \E topic \in Topics \cup {Wildcard} : \E h \in Handlers : Subscribe(topic, h)
    \/ \E et \in EventTypes : \E tp \in Topics \cup {Wildcard, NoTopic} : Publish(et, tp)

SpecEvents == SpecEventsInit /\ [][EventsNext]_vars

\* The event bus with subscriptions that are cancelled as well.
UnsubNext ==
    \/ EventsNext
    \/ \E topic \in Topics \cup {Wildcard} : \E h \in Handlers : Unsubscribe(topic, h)

SpecUnsub == SpecEventsInit /\ [][UnsubNext]_vars

\* SIAMEOrchestrator with its TaskDispatcher: agents register, tasks are
\* submitted and cancelled, _dispatch_loop processes the queue. The dispatcher
\* is built with the orchestrator as an argument; both an orchestrator without
\* the attribute TaskStatus (SIAMEOrchestrator) and one that has it are covered.
SpecDispatchInit ==
    /\ QueueInit
    /\ tracing = FALSE
    /\ BusConstructed
    /\ AggInit
    /\ EventBusInit
    /\ OrchInit
    /\ exposes_task_status \in BOOLEAN
    /\ StrategiesIdle
    /\ PoliciesIdle

DispatchNext ==
    \/ \E m \in 1..MaxConcurrent : OrchRegisterAgent(m)
    \/ OrchSubmitTask(<<"analyst">>)
    \/ ProcessTaskBatch
    \/ \E t \in OrchTaskIds : CancelTask(t)

SpecDispatch == SpecDispatchInit /\ [][DispatchNext]_vars

\* SpecDispatch with tasks that require agents of one or of two types
SubmitNext ==
    \/ DispatchNext
    \/ \E required \in RequiredAgents : OrchSubmitTask(required)

SpecSubmit == SpecDispatchInit /\ [][SubmitNext]_vars

\* _create_aggregated_result applied to the task results of a workflow
SpecStrategiesInit ==
    /\ QueueInit
    /\ tracing = FALSE
    /\ BusConstructed
    /\ AggInit
    /\ EventBusInit
    /\ OrchConstructed
    /\ \E n \in 1..MaxStrategyResults : agg_task_results \in [1..n -> TaskResults]
    /\ strategy = "none"
    /\ consolidated_data = <<>>
    /\ confidence_scores = <<>>
    /\ PoliciesIdle

StrategiesNext == \E s \in Strategies : CreateAggregatedResult(s)

SpecStrategies == SpecStrategiesInit /\ [][StrategiesNext]_vars

\* ErrorHandler.handle_task_error as a function of retry_count, the clock and
\* max_retry_delay: one task fails again and again within its max_retries.
SpecBackoffInit ==
    /\ QueueInit
    /\ tracing = FALSE
    /\ BusConstructed
    /\ AggInit
    /\ EventBusInit
    /\ OrchConstructed
    /\ StrategiesIdle
    /\ \E m \in 1..MaxRetryDelay : backoff = [max_retry_delay |-> m, delays |-> <<>>]
    /\ selections = [pool |-> {}, selected |-> <<>>]

SpecBackoff ==
    SpecBackoffInit /\ [][\E jitter \in 0..(JitterSteps - 1) : HandleTaskError(jitter)]_vars

\* TaskDispatcher under DispatchStrategy.ROUND_ROBIN, selecting again and again
\* from an eligible pool that does not change.
SpecRoundRobinInit ==
    /\ QueueInit
    /\ tracing = FALSE
    /\ BusConstructed
    /\ AggInit
    /\ EventBusInit
    /\ OrchConstructed
    /\ StrategiesIdle
    /\ backoff = [max_retry_delay |-> 0, delays |-> <<>>]
    /\ \E pool \in SUBSET OrchAgentIds :
          /\ pool # {}
          /\ selections = [pool |-> pool, selected |-> <<>>]

SpecRoundRobin == SpecRoundRobinInit /\ [][SelectRoundRobin]_vars

\* SharedContext with the agents that register, report their status and send
\* heartbeats, the dispatch of task messages and _heartbeat_monitor
AgentsNext ==
    \/ \E a \in AgentIds : \E ty \in AgentTypes : RegisterAgent(a, ty)
    \/ \E a \in AgentIds : UnregisterAgent(a)
    \/ \E a \in AgentIds : \E s \in AgentStatusValues : UpdateAgentStatus(a, s)
    \/ \E a \in AgentIds : HeartbeatMessage(a)
    \/ \E a \in AgentIds : HeartbeatOverdue(a)
    \/ \E a \in AgentIds : HeartbeatMonitor(a)
    \/ \E ty \in AgentTypes \cup {NoType} : DispatchTask(ty)

SpecAgents == SpecBusInit /\ [][AgentsNext]_vars

\* SpecAgents with the history of the unregister_agent calls
SpecRegistryInit ==
    /\ QueueInit
    /\ tracing = TRUE
    /\ BusInit
    /\ AggInit
    /\ EventBusInit
    /\ OrchConstructed
    /\ StrategiesIdle
    /\ PoliciesIdle

SpecRegistry == SpecRegistryInit /\ [][AgentsNext]_vars

\* _heartbeat_monitor is a worker task that loops for as long as the bus runs:
\* it reaches every agent whose heartbeat stays overdue
SpecAgentsFair ==
    SpecAgents /\ \A a \in AgentIds : WF_vars(HeartbeatMonitor(a))

(***************************************************************************)
(* Claims about MessageQueue (checked under SpecQueue)                      *)
(* trace events: "put" put returned True, "refuse" put returned False,      *)
(* "evict" discarded for a critical message, "take" removed from its tier   *)
(* on behalf of get, "get" returned by get, "drop" taken but never returned *)
(***************************************************************************)
\* message id left its tier (taken for get, or evicted) before position g
LeftBefore(id, g) ==
    \E k \in 1..(g - 1) : trace[k].id = id /\ trace[k].ev \in {"take", "evict"}

\* the position at which message id was removed from its tier on behalf of get
TakeIdx(id) == CHOOSE k \in 1..Len(trace) : trace[k].id = id /\ trace[k].ev = "take"

\* C1: strict priority. Whenever get returns a message of priority p, then at the
\* moment that message was dequeued from its tier no tier of strictly higher
\* priority held a message: every message put accepted earlier at a higher
\* priority had already left the queue. (So a higher-priority message enqueued
\* after a lower-priority one is dequeued before it.)
C1_StrictPriority ==
    \A g \in 1..Len(trace) :
        trace[g].ev = "get" =>
            \A i \in 1..(TakeIdx(trace[g].id) - 1) :
                (trace[i].ev = "put" /\ trace[i].priority < trace[g].priority)
                    => LeftBefore(trace[i].id, TakeIdx(trace[g].id))

\* C2: FIFO within a tier. Whenever get returns a message m2, every message m1
\* of the same priority that put accepted before m2 had left the tier before m2
\* did: get never returns m2 before m1.
C2_FifoWithinTier ==
    \A g \in 1..Len(trace) :
        trace[g].ev = "get" =>
            \A i, j \in 1..(g - 1) :
                (/\ i < j
                 /\ trace[i].ev = "put" /\ trace[j].ev = "put"
                 /\ trace[j].id = trace[g].id
                 /\ trace[i].priority = trace[j].priority)
                    => LeftBefore(trace[i].id, TakeIdx(trace[g].id))

\* C2 witness: two messages of one tier, put one after the other, were both
\* returned by get in that order, the second put lying between the two get calls.
C2_Witness ==
    \E i, j, g \in 1..Len(trace) :
        /\ i < j /\ j < g
        /\ trace[i].ev = "get" /\ trace[g].ev = "get"
        /\ trace[j].ev = "put" /\ trace[j].id = trace[g].id
        /\ trace[i].priority = trace[g].priority
        /\ trace[i].id < trace[g].id

\* C14: back-pressure on a full tier. In every step in which put is called with a
\* message of the HIGH, NORMAL, LOW or BACKGROUND tier and that tier is at
\* capacity, put returns False (the call is recorded as refused), and the content
\* of every tier and the messages_queued counter are what they were before.
C14_BackPressure ==
    [][\A p \in MessagePriority \ {CRITICAL} :
          (Producer(p) /\ QueueFull(queues[p]))
              => /\ trace' = Append(trace, Event("refuse", Message(nextId, p, 0)))
                 /\ queues' = queues
                 /\ MessagesQueued' = MessagesQueued]_vars

\* C14 witness: a put on a full non-critical tier was refused while the tier still
\* holds the messages that filled it.
C14_Witness ==
    \E k \in 1..Len(trace) :
        /\ trace[k].ev = "refuse"
        /\ trace[k].priority # CRITICAL
        /\ QueueFull(queues[trace[k].priority])
        /\ MessagesQueued = QueueMaxSize

\* C15: critical admission by eviction. In every step in which put is called with
\* a CRITICAL message and the CRITICAL tier is at capacity, the message is
\* admitted: it is in the CRITICAL tier afterwards and put has returned True
\* (the call is recorded as a put).
C15_CriticalAdmitted ==
    [][(Producer(CRITICAL) /\ QueueFull(queues[CRITICAL]))
          => /\ \E j \in 1..Len(queues'[CRITICAL]) : queues'[CRITICAL][j].id = nextId
             /\ trace' # <<>>
             /\ trace'[Len(trace')] = Event("put", Message(nextId, CRITICAL, 0))]_vars

(***************************************************************************)
(* Claims about MessageBus, SharedContext and ErrorHandler (under SpecBus)  *)
(***************************************************************************)
\* C3: bounded retries. For every task, whatever fail_task calls were made on it,
\* the number of retries the error handler scheduled for it is at most its
\* max_retries.
C3_BoundedRetries ==
    \A t \in TaskIds : retries_scheduled[t] <= task[t].max_retries

\* C3 witness: a task with max_retries >= 1 had all its retries scheduled and then
\* failed once more, which marked it failed instead of scheduling another retry.
C3_Witness ==
    \E t \in TaskIds :
        /\ task[t].max_retries >= 1
        /\ retries_scheduled[t] = task[t].max_retries
        /\ task[t].status = "failed"
        /\ events[t].failed = 1

\* C4: terminal failure exactly once. For every task, under every interleaving of
\* fail_task calls and sweeps of the retry scheduler, at most one TASK_FAILED
\* event is ever published: the task enters the failed status once and is not
\* retried or submitted again afterwards.
C4_FailedOnce ==
    \A t \in TaskIds : events[t].failed <= 1

\* C7: task status is monotone. In every step, a task that is completed, failed or
\* cancelled keeps its status.
C7_TerminalStatusFinal ==
    [][\A t \in TaskIds :
          task[t].status \in {"completed", "failed", "cancelled"}
              => task'[t].status = task[t].status]_vars

\* C8: an agent's current-task list loses a task id when the task is completed.
\* In every step in which complete_task marks a task of the task table completed,
\* no agent's current-task list holds the task id afterwards.
C8_CompleteRemoves ==
    [][\A t \in TaskIds :
          (t \in active_tasks /\ task'[t].status = "completed")
              => \A a \in AgentIds : ~InList(t, agents'[a].current_tasks)]_vars

\* C9: load factor in [0,1]. In every reachable state every agent's current-task
\* list has at most as many entries as the maximum concurrency (5), and its
\* load factor n / 5.0 lies between 0 and 1.
C9_LoadFactorBounded ==
    \A a \in AgentIds :
        /\ Len(agents[a].current_tasks) <= MaxAssumedTasks
        /\ agents[a].load_factor >= 0
        /\ agents[a].load_factor <= MaxAssumedTasks

\* C9 witness: dispatching a submitted task brought an agent to load factor 0.8,
\* and the next task message found the still active agent not available.
C9_Witness ==
    \E a \in AgentIds :
        /\ agents[a].status = "active"
        /\ agents[a].load_factor = MaxAssumedTasks - 1
        /\ \E t \in TaskIds : InList(t, agents[a].current_tasks)
        /\ hpc = "sleeping"

\* C10: effect of dispatch. In every step in which the dispatch selects agent a
\* for a pending task t of the task table, afterwards the record of t in the task
\* table has assigned agent a, status running and a start timestamp, and the
\* current-task list of a holds t.
C10_DispatchEffect ==
    [][\A t \in TaskIds : \A a \in AgentIds :
          (/\ t \in active_tasks
           /\ task[t].status = "pending"
           /\ agents'[a].current_tasks = Append(agents[a].current_tasks, t))
              => (/\ task'[t].assigned_agent_id = a
                  /\ task'[t].status = "running"
                  /\ task'[t].started_at
                  /\ InList(t, agents'[a].current_tasks))]_vars

\* C11: a dispatch failure is handled like an execution failure. In every step in
\* which the handler of a task message finds no agent available for the task, the
\* retry count of the task is incremented, as a fail_task call would increment it
\* (and the task is then retried within max_retries or marked failed).
C11_DispatchFailureCounted ==
    [][(hpc = "idle" /\ hpc' = "sleeping")
          => task'[got.task].retry_count = task[got.task].retry_count + 1]_vars

\* C12: scheduled retries are promoted. In every sweep of the retry scheduler,
\* every task whose scheduled retry time has passed is returned by the sweep: it
\* has the pending status afterwards and a new message for it is in the queue.
C12_DueRetriesPromoted ==
    [][\A k \in 1..Len(retry_schedule) :
          (retry_schedule[k].due /\ Len(retry_schedule') < Len(retry_schedule))
              => LET t == retry_schedule[k].id IN
                   /\ task'[t].status = "pending"
                   /\ \E p \in MessagePriority : \E j \in 1..Len(queues'[p]) :
                        /\ queues'[p][j].task = t
                        /\ queues'[p][j].id >= nextId]_vars

\* C13: no failure is discarded (under SpecFail). In every step that is a call
\* fail_task(t, error, a), afterwards a retry of t is scheduled, or t has the
\* failed status and a TASK_FAILED event of t has been published; this includes
\* the calls for a task that is not in active_tasks any more.
C13_NoFailureDiscarded ==
    [][\A t \in TaskIds :
          (/\ Len(trace') = Len(trace) + 1
           /\ trace'[Len(trace')] = [ev |-> "fail_task", id |-> t, priority |-> 0])
              => \/ \E k \in 1..Len(retry_schedule') : retry_schedule'[k].id = t
                 \/ (task'[t].status = "failed" /\ events'[t].failed >= 1)]_vars

\* C23, as stated: retry scenario (under SpecFail). A task with max_retries = 3
\* that has failed three times has had exactly three retries scheduled and
\* exactly one TASK_FAILED event published.
C23_ThreeFailures ==
    \A t \in TaskIds :
        (t < nextTask /\ task[t].max_retries = DefaultMaxRetries /\ task[t].retry_count = 3)
            => (retries_scheduled[t] = 3 /\ events[t].failed = 1)

\* C23, amended: a task with max_retries = 3 that has failed up to three times
\* has had one retry scheduled per failure and no TASK_FAILED event published;
\* once it has failed four times it has had exactly three retries scheduled,
\* no fourth, and exactly one TASK_FAILED event published.
C23_RetryScenario ==
    \A t \in TaskIds :
        (t < nextTask /\ task[t].max_retries = DefaultMaxRetries)
            => /\ task[t].retry_count <= 3
                    => (retries_scheduled[t] = task[t].retry_count /\ events[t].failed = 0)
               /\ task[t].retry_count = 4
                    => (retries_scheduled[t] = 3 /\ events[t].failed = 1)

\* C23 witness: a task with max_retries = 3 failed four times: three retries
\* were scheduled, and the fourth failure marked it failed with one event.
C23_Witness ==
    \E t \in TaskIds :
        /\ t < nextTask
        /\ task[t].max_retries = DefaultMaxRetries
        /\ task[t].retry_count = 4
        /\ retries_scheduled[t] = 3
        /\ task[t].status = "failed"
        /\ events[t].failed = 1

\* C16: a refused message is not lost silently. In every step in which the handler
\* of a task message puts the message back after its sleep, either the message is
\* in the queue afterwards, or the refusal is reported: the task of the message
\* is marked or an event about it is published.
C16_RefusedRequeueReported ==
    [][(hpc = "sleeping" /\ hpc' = "idle")
          => \/ \E p \in MessagePriority : \E j \in 1..Len(queues'[p]) :
                  queues'[p][j] = got
             \/ task'[got.task] # task[got.task]
             \/ events'[got.task] # events[got.task]]_vars

\* C19: get_available_agents(type) (under SpecAgents). In every reachable state,
\* for every type and for no type given, the call returns each registered agent
\* once whose status is active or idle, whose load factor n / 5.0 is below 0.8
\* and, when a type is given, whose declared type equals it, and no other agent.
C19_AvailableAgents ==
    \A ty \in AgentTypes \cup {NoType} :
        LET r == GetAvailableAgents(agents, agent_order, ty) IN
          /\ {r[k] : k \in 1..Len(r)} =
                 {a \in AgentIds :
                     /\ agents[a].registered
                     /\ agents[a].status \in {"active", "idle"}
                     /\ 10 * agents[a].load_factor < 8 * MaxAssumedTasks
                     /\ (ty # NoType => agents[a].agent_type = ty)}
          /\ \A i, j \in 1..Len(r) : i # j => r[i] # r[j]

\* C19 witness: the call for a type returns an idle agent of that type while an
\* active agent at the threshold (load factor 0.8) and of another type is left out.
C19_Witness ==
    \E ty \in AgentTypes : \E a, b \in AgentIds :
        /\ agents[a].status = "idle"
        /\ agents[a].agent_type = ty
        /\ GetAvailableAgents(agents, agent_order, ty) = <<a>>
        /\ agents[b].status = "active"
        /\ agents[b].agent_type # ty
        /\ agents[b].load_factor = MaxAssumedTasks - 1

\* C28: explicit unregister removes the record (under SpecAgents). In every step
\* that is a call unregister_agent(a), the registry holds no record of agent a
\* afterwards.
C28_UnregisterRemoves ==
    [][\A a \in AgentIds : UnregisterAgent(a) => ~agents'[a].registered]_vars

\* C20: heartbeat timeout (under SpecAgentsFair). An agent whose heartbeat is
\* overdue and that is not offline is eventually offline, unless a status update
\* of it arrives first; and an agent the heartbeat monitor set offline stays
\* offline and is not returned by get_available_agents, for any type, for as
\* long as no heartbeat or other status update of it has arrived since.
C20_HeartbeatTimeout ==
    /\ \A a \in AgentIds :
          (agents[a].registered /\ agents[a].status # "offline"
              /\ agents[a].last_heartbeat = "late")
            ~> (agents[a].status = "offline" \/ agents[a].last_heartbeat = "recent")
    /\ [](\A a \in AgentIds :
             agents[a].timed_out
                => /\ agents[a].status = "offline"
                   /\ \A ty \in AgentTypes \cup {NoType} :
                        ~InList(a, GetAvailableAgents(agents, agent_order, ty)))

\* C20 witness: the monitor set an agent of load factor below the threshold
\* offline, no status update of it has arrived since, and the other agent is
\* the only one available.
C20_Witness ==
    \E a, b \in AgentIds :
        /\ agents[a].timed_out
        /\ agents[a].status = "offline"
        /\ LoadBelowLimit(agents[a].load_factor)
        /\ GetAvailableAgents(agents, agent_order, NoType) = <<b>>

(***************************************************************************)
(* Claims about EventBus (under SpecEvents)                                 *)
(***************************************************************************)
\* C17: delivery of publish. In every step that is a call publish(event, topic),
\* the topic used is the one given, or the value of the event type if none is
\* given; the handlers invoked are first every handler subscribed to that topic,
\* each once, then every wildcard handler, each once, whichever of them raise;
\* and the delivered_count returned is the number of invocations that returned
\* without raising.
C17_PublishDelivers ==
    [][\A et \in EventTypes : \A tp \in Topics \cup {Wildcard, NoTopic} :
          Publish(et, tp)
              => LET topic == IF tp = NoTopic THEN et ELSE tp
                     E == IF topic \in Topics THEN subscribers[topic] ELSE {}
                     W == wildcard_subscribers
                     inv == last_publish'.invoked
                     n == Cardinality(E)
                 IN /\ last_publish'.topic = topic
                    /\ Len(inv) = n + Cardinality(W)
                    /\ {inv[k].handler : k \in 1..n} = E
                    /\ {inv[k].handler : k \in (n + 1)..Len(inv)} = W
                    /\ last_publish'.delivered_count =
                          Cardinality({k \in 1..Len(inv) : ~inv[k].raised})]_vars

\* C17 witness: a publish without a topic invoked a handler of the event type's
\* topic that raised, and afterwards a wildcard handler that returned, and
\* returned a delivered_count smaller than the number of handlers invoked.
C17_Witness ==
    /\ last_publish.default_topic
    /\ \E i \in 1..last_publish.exact :
         \E j \in (last_publish.exact + 1)..Len(last_publish.invoked) :
             /\ last_publish.invoked[i].raised
             /\ ~last_publish.invoked[j].raised
    /\ last_publish.delivered_count >= 1
    /\ last_publish.delivered_count < Len(last_publish.invoked)

\* C18: same-topic handlers run in subscription order. In every reachable state,
\* of any two handlers the last publish invoked as subscribers of its topic, the
\* one invoked first had subscribed to the topic first.
C18_SubscriptionOrder ==
    \A i, j \in 1..last_publish.exact :
        i < j =>
          LET First(h) == Min({k \in 1..Len(subscribed) :
                                  subscribed[k] = [topic |-> last_publish.topic,
                                                   handler |-> h]})
          IN First(last_publish.invoked[i].handler) < First(last_publish.invoked[j].handler)

(***************************************************************************)
(* Claims about ResultAggregator (under SpecAgg)                            *)
(***************************************************************************)
\* C5: a workflow is aggregated at most once. Over any sequence of
\* add_task_result, aggregate_workflow_results and cleanup operations, at most
\* one AggregatedResult is ever produced for a workflow id.
C5_AggregatedOnce ==
    \A w \in WorkflowIds : aggregations[w] <= 1

\* C6: aggregation only after completion. An AggregatedResult of a workflow was
\* created in a state where every task id of the workflow had a recorded result:
\* it consolidates a result of every task id of the workflow.
C6_OnlyWhenComplete ==
    \A w \in WorkflowIds :
        aggregated_results[w].present => aggregated_results[w].task_ids = WorkflowTasks(w)

C25_MergeKeepsAll ==
    strategy = "merge" =>
        /\ \A i \in 1..Len(agg_task_results) : \A k \in DataKeys :
              agg_task_results[i].data[k] # Absent =>
                \E j \in 1..Len(consolidated_data[k]) :
                    consolidated_data[k][j] =
                        [value |-> agg_task_results[i].data[k],
                         agent_type |-> agg_task_results[i].agent_type,
                         confidence |-> agg_task_results[i].confidence_score]
        /\ \A k \in DataKeys : \A j \in 1..Len(consolidated_data[k]) :
              \E i \in 1..Len(agg_task_results) :
                  /\ agg_task_results[i].data[k] = consolidated_data[k][j].value
                  /\ agg_task_results[i].agent_type = consolidated_data[k][j].agent_type
                  /\ agg_task_results[i].confidence_score = consolidated_data[k][j].confidence

\* two results of different agents carry a value of the same key, one of them
\* has a second key, and all three values are in the merged data
C25_Witness ==
    /\ strategy = "merge"
    /\ Len(agg_task_results) = 2
    /\ agg_task_results[1].data["title"] # Absent
    /\ agg_task_results[2].data["title"] # Absent
    /\ agg_task_results[1].data["parties"] = Absent
    /\ agg_task_results[2].data["parties"] # Absent
    /\ agg_task_results[1].agent_type # agg_task_results[2].agent_type
    /\ Len(consolidated_data["title"]) = 2
    /\ consolidated_data["title"][1].agent_type = agg_task_results[1].agent_type
    /\ consolidated_data["title"][2].agent_type = agg_task_results[2].agent_type
    /\ Len(consolidated_data["parties"]) = 1

\* C26: best-score selection. Under the best-score strategy, for each result
\* type present among the task results of the workflow, consolidated_data holds
\* the data of one task result of that type, and no task result of that type has
\* a strictly higher confidence score than the one kept; a result type that is
\* not present has no entry.
C26_BestScoreKept ==
    strategy = "best_score" =>
        \A rt \in ResultTypes :
            LET S == {i \in 1..Len(agg_task_results) : agg_task_results[i].result_type = rt}
            IN IF S = {} THEN ~consolidated_data[rt].present
               ELSE /\ consolidated_data[rt].present
                    /\ \E i \in S :
                          /\ consolidated_data[rt].data = agg_task_results[i].data
                          /\ confidence_scores[rt] = agg_task_results[i].confidence_score
                          /\ \A j \in S : agg_task_results[j].confidence_score
                                              <= agg_task_results[i].confidence_score

\* two results of one type with different data, the first with the higher
\* confidence: the data of the first is kept
C26_Witness ==
    /\ strategy = "best_score"
    /\ Len(agg_task_results) = 2
    /\ agg_task_results[1].result_type = agg_task_results[2].result_type
    /\ agg_task_results[1].confidence_score > agg_task_results[2].confidence_score
    /\ agg_task_results[1].data # agg_task_results[2].data
    /\ consolidated_data[agg_task_results[1].result_type].data = agg_task_results[1].data

(***************************************************************************)
(* Claims about the task lifecycle and the agent registry of MessageBus     *)
(* (under SpecFail, SpecBus and SpecAgents)                                 *)
(***************************************************************************)
\* C27: merge-strategy round trip. Completing a submitted task with a payload
\* yields an AggregatedResult whose consolidated data contains the payload: when
\* complete_task returns, a task result of the task is recorded and aggregated.
C27_CompletionAggregated ==
    [][\A t \in TaskIds : \A a \in AgentIds :
          CompleteTask(t, a)
              => \/ \E w \in WorkflowIds : aggregated_results'[w].present
                 \/ strategy' # "none"]_vars

\* C29: every task lifecycle transition publishes an event. Each change of the
\* status of a task, and each dispatch of a task to an agent, is accompanied by
\* an event about the task published on the event bus.
C29_TransitionPublishes ==
    [][\A t \in TaskIds :
          (\/ task'[t].status # task[t].status
           \/ \E a \in AgentIds :
                 agents'[a].current_tasks = Append(agents[a].current_tasks, t))
              => events'[t] # events[t]]_vars

\* the steps whose writes to the agents are made inside `async with self._lock`:
\* the methods of SharedContext, and _heartbeat_monitor, which writes through
\* update_agent_status
LockedStep ==
    \E a \in AgentIds :
        \/ \E ty \in AgentTypes : RegisterAgent(a, ty)
        \/ UnregisterAgent(a)
        \/ \E st \in AgentStatusValues : UpdateAgentStatus(a, st)
        \/ HeartbeatMonitor(a)

\* C30: every mutation of the agent registry (the entries of the agent table, the
\* status, current-task list and load factor of an agent) is made while holding
\* the registry's lock.
C30_MutationsUnderLock ==
    [][(\E a \in AgentIds :
            \/ agents'[a].registered # agents[a].registered
            \/ agents'[a].status # agents[a].status
            \/ agents'[a].current_tasks # agents[a].current_tasks
            \/ agents'[a].load_factor # agents[a].load_factor)
          => LockedStep]_vars

\* C40: complete_task on a task that already reached a terminal status (it was
\* completed, or failed permanently with TASK_FAILED published) returns False,
\* publishes no event and leaves the task state unchanged.
C40_CompleteAfterTerminal ==
    [][\A t \in TaskIds : \A a \in AgentIds :
          (CompleteTask(t, a) /\ (events[t].completed >= 1 \/ events[t].failed >= 1))
              => UNCHANGED <<task, events, active_tasks>>]_vars

\* C31: cancelling one subscription leaves every other subscription registered:
\* the handler of each subscription that was issued and not cancelled is still
\* among the callbacks of its topic (or among the wildcard callbacks), so later
\* publishes keep invoking it.
C31_OthersStayRegistered ==
    \A k \in 1..Len(subscribed) :
        IF subscribed[k].topic = Wildcard
            THEN subscribed[k].handler \in wildcard_subscribers
            ELSE subscribed[k].handler \in subscribers[subscribed[k].topic]

\* C33: the delay d of the retry with retry_count n is at most max_retry_delay;
\* when 2^n + 1 <= max_retry_delay it satisfies 2^n <= d < 2^n + 1; and the
\* delays of successive retries of one task never decrease.
C33_BackoffBounds ==
    \A n \in 1..Len(backoff.delays) :
        LET d == backoff.delays[n]
            m == backoff.max_retry_delay
        IN /\ d <= m * JitterSteps
           /\ (Pow2(n) + 1 <= m) =>
                  (Pow2(n) * JitterSteps <= d /\ d < (Pow2(n) + 1) * JitterSteps)
           /\ (n > 1) => (backoff.delays[n - 1] <= d)

\* a task retried three times: the first delay carries jitter and is below the
\* cap, the second is larger, the third is cut down to max_retry_delay
C33_Witness ==
    /\ Len(backoff.delays) = 3
    /\ Pow2(1) * JitterSteps < backoff.delays[1]
    /\ backoff.delays[1] < backoff.delays[2]
    /\ backoff.delays[2] < backoff.max_retry_delay * JitterSteps
    /\ backoff.delays[3] = backoff.max_retry_delay * JitterSteps
    /\ Pow2(3) > backoff.max_retry_delay

\* C32: under round-robin with an unchanged eligible pool of n agents, any n
\* consecutive selections pick each agent of the pool exactly once.
C32_RoundRobinCycles ==
    LET n == Cardinality(selections.pool)
    IN \A i \in 1..(Len(selections.selected) - n + 1) :
          {selections.selected[k] : k \in i..(i + n - 1)} = selections.pool

\* C34: the queue loses no message: a message that was accepted by put and has
\* left its tier was evicted for a critical message, or was returned by get, or
\* is held by the get call in progress; none was taken and never returned. This
\* covers the timed-wait path of get.
C34_NoMessageLost ==
    /\ \A k \in 1..Len(trace) : trace[k].ev # "drop"
    /\ \A k \in 1..Len(trace) :
          trace[k].ev = "take" =>
              \/ \E j \in (k + 1)..Len(trace) :
                     trace[j].ev = "get" /\ trace[j].id = trace[k].id
              \/ \E p \in MessagePriority : taken[p].id = trace[k].id

\* C35: put always returns: no call of put stays suspended for ever, whatever
\* the consumers do; a message whose put is suspended is eventually no longer
\* among the suspended puts.
C35_PutReturns ==
    \A i \in 1..MaxMsgs :
        (\E k \in 1..Len(putters) : putters[k].id = i)
            ~> ~(\E k \in 1..Len(putters) : putters[k].id = i)

\* C36: a task is bound to at most one agent at a time: each task id occurs in
\* at most one agent's current_tasks, and at most once there.
C36_BoundToOneAgent ==
    \A t \in TaskIds :
        Cardinality({<<a, k>> \in AgentIds \X (1..(MaxTasks * (MaxRetries + 2))) :
                        /\ k <= Len(agents[a].current_tasks)
                        /\ agents[a].current_tasks[k] = t}) <= 1

\* C37: the dispatch step binds no agent to a task that has reached a terminal
\* status: when _handle_task_message handles the message of a task that was
\* completed or has failed permanently meanwhile, no agent's current_tasks
\* gains the task id.
C37_NoDispatchAfterTerminal ==
    [][(HandleTaskMessage /\ task[got.task].status \in {"completed", "failed"})
          => \A a \in AgentIds : agents'[a].current_tasks = agents[a].current_tasks]_vars

\* C38: a failed submission leaves no trace on agents: after a submit_task that
\* raised (the task is marked FAILED by it) no agent's current_tasks holds the
\* id of the task.
C38_FailedSubmitLeavesNoTrace ==
    [][\A required \in RequiredAgents : \A t \in OrchTaskIds :
          (OrchSubmitTask(required) /\ tasks[t].status = "none"
                                    /\ tasks'[t].status = "failed")
              => \A a \in OrchAgentIds :
                    \A k \in 1..Len(orch_agents'[a].current_tasks) :
                        orch_agents'[a].current_tasks[k] # t]_vars

\* C39: an unregistered agent is never offered for work: from unregister_agent
\* until the id is registered again, whatever heartbeats and status updates
\* arrive for it, get_available_agents does not return the agent.
C39_UnregisteredNotOffered ==
    \A a \in AgentIds :
        agents[a].unregistered =>
            ~InList(a, GetAvailableAgents(agents, agent_order, NoType))

====
